---- MODULE Spec2Model ----
(***************************************************************************)
(* Buddy allocator of src/src/balloc/balloc.go as a state machine.         *)
(*                                                                         *)
(* The pool (kvalM, numBytes, base, avail[]), the mmap'd arena (mem: the   *)
(* Avail headers that live inside it) and the mutex are the state.  Each   *)
(* thread runs buddyInit / buddyMalloc / buddyFree / buddyDestroy; a call  *)
(* is a sequence of steps (lock, body, loop iterations, return) so that    *)
(* the interleavings the mutex forbids are forbidden by the mutex and not  *)
(* by the model.                                                           *)
(*                                                                         *)
(* Scale.  TLC's integers are 32 bit, the program's uintptr is 64 bit, and *)
(* its smallest arena has 2^14 smallest blocks.  The model keeps the code  *)
(* and shrinks the machine: an 8 bit word and level constants in the same  *)
(* order as the program's (SMALLEST_K < MIN_K < DEFAULT_K < MAX_K <        *)
(* WordBits - 1, header smaller than the smallest block and no power of    *)
(* two).  Every size is reduced modulo 2^WordBits as uintptr is.  The      *)
(* arenas have 2 and 4 smallest blocks, so a request splits a block up to  *)
(* twice and a free merges up to twice.                                    *)
(***************************************************************************)
EXTENDS Integers, FiniteSets, Sequences, TLC

\* ------------------------------------------------------------ constants
\* width of uintptr / uint (64 in the program)
WordBits == 8
Word == 2 ^ WordBits

\* balloc.go:13-16 (30, 20, 48, 6 in the program)
DEFAULT_K == 4
MIN_K == 3
MAX_K == 5
SMALLEST_K == 2

\* balloc.go:18-20
BLOCK_AVAIL == 1
BLOCK_RESERVED == 0
BLOCK_UNUSED == 3

\* unsafe.Sizeof(Avail{}) (24 in the program: 2+2+4 padding+8+8)
HeaderSize == 3

\* ---------------------------------------------------------------- inputs
\* the threads sharing the pool
Threads == {1, 2}

\* Addresses mmap may return: page aligned (a page is no larger than the
\* smallest arena), so the base need not be aligned to the arena size.
MmapBases == {72, 128}

\* request sizes handed to buddyMalloc: zero, the small ones, the ones that
\* take a whole arena, one that exceeds every arena, one for which
\* size + HeaderSize exceeds 2^(WordBits-1) and one for which it wraps
MallocSizes == {0, 1, 5, 13, 29, Word \div 2, Word - 2}

\* request sizes handed to buddyInit: the default, one below the floor, the
\* ceiling itself, one above it, and one for which btok cannot end
InitSizes == {0, 1, 2 ^ MAX_K, 2 ^ MAX_K + 1, Word \div 2 + 1}

\* ------------------------------------------------------------- pointers
\* A *Avail is nil, the address of a sentinel &pool.avail[i], or an address
\* inside the mapped arena.
NULL == <<"nil", 0>>

Sent(i) == <<"sent", i>>

Mem(a) == <<"mem", a>>

\* Avail{} : the zero value of the header struct
ZeroAvail == [tag |-> 0, kval |-> 0, next |-> NULL, prev |-> NULL]

\* error values
NoErr == "nil"
ENOMEM == "ENOMEM"
EINVAL == "EINVAL"

\* uintptr(1) << k : a shift by the width or more yields 0
Shl1(k) == IF k >= WordBits THEN 0 ELSE 2 ^ k

\* the headers of a freshly mapped, zero filled arena: one per smallest
\* block (no block is smaller, so no header lives anywhere else)
FreshArena(b, n) ==
    [a \in {b + i * Shl1(SMALLEST_K) : i \in 0 .. (n \div Shl1(SMALLEST_K)) - 1}
        |-> ZeroAvail]

VARIABLES
    kvalM,       \* pool.kvalM
    numBytes,    \* pool.numBytes
    base,        \* pool.base
    avail,       \* pool.avail : 0..MAX_K-1 -> header
    locked,      \* pool.lock
    mem,         \* the headers inside the mapped arena, by address
    mapping,     \* the provider's view: the region currently mapped
    released,    \* successful munmap calls on the current mapping
    pc,          \* per thread: where it is in its call
    arg,         \* per thread: the call's argument (size or pointer)
    k,           \* per thread: buddyMalloc's k
    availableK,  \* per thread: buddyMalloc's availableK
    block,       \* per thread: buddyMalloc's / coalesce's block
    ret,         \* per thread: what the last call returned
    held         \* pointers returned by buddyMalloc and not yet freed

vars == <<kvalM, numBytes, base, avail, locked, mem, mapping, released,
          pc, arg, k, availableK, block, ret, held>>

poolVars == <<kvalM, numBytes, base, avail, mem>>

NoMapping == [base |-> 0, size |-> 0]

NoRet == [op |-> "none", ptr |-> 0, err |-> NoErr]

\* var pool BuddyPool : Go zero value, nothing mapped, every thread idle
Init ==
    /\ kvalM = 0
    /\ numBytes = 0
    /\ base = 0
    /\ avail = [i \in 0 .. MAX_K - 1 |-> ZeroAvail]
    /\ locked = FALSE
    /\ mem = FreshArena(0, 0)
    /\ mapping = NoMapping
    /\ released = 0
    /\ pc = [t \in Threads |-> "idle"]
    /\ arg = [t \in Threads |-> 0]
    /\ k = [t \in Threads |-> 0]
    /\ availableK = [t \in Threads |-> 0]
    /\ block = [t \in Threads |-> NULL]
    /\ ret = [t \in Threads |-> NoRet]
    /\ held = {}

Alive == \A t \in Threads : pc[t] # "panicked"

\* ------------------------------------------------------------ the heap
\* The code reads and writes headers through *Avail pointers.  A heap value
\* h = [avail, mem, fault] is threaded through the statements of a function
\* body; fault records a nil dereference, an index out of range or an access
\* outside the mapped arena: execution stops there (panic / SIGSEGV).
Heap == [avail |-> avail, mem |-> mem, fault |-> FALSE]

Valid(h, p) ==
    \/ p[1] = "sent" /\ p[2] \in DOMAIN h.avail
    \/ p[1] = "mem" /\ p[2] \in DOMAIN h.mem

\* *p
Rd(h, p) ==
    IF ~Valid(h, p) THEN ZeroAvail
    ELSE IF p[1] = "sent" THEN h.avail[p[2]] ELSE h.mem[p[2]]

\* a read of *p that may fault
Touch(h, p) == IF Valid(h, p) THEN h ELSE [h EXCEPT !.fault = TRUE]

\* p.f = v
Wr(h, p, f, v) ==
    IF h.fault THEN h
    ELSE IF ~Valid(h, p) THEN [h EXCEPT !.fault = TRUE]
    ELSE IF p[1] = "sent" THEN [h EXCEPT !.avail[p[2]][f] = v]
    ELSE [h EXCEPT !.mem[p[2]][f] = v]

\* removeFirst without lines 189-191: the links of the block are not wiped
removeFirst_KeepsLinks(h, head) ==
    LET first == Rd(h, head).next
    IN  IF first = head THEN [h |-> Touch(h, head), first |-> NULL]
        ELSE LET h0 == Touch(Touch(h, head), first)
                 h1 == Wr(h0, Rd(h0, first).prev, "next", Rd(h0, first).next)
                 h2 == Wr(h1, Rd(h1, first).next, "prev", Rd(h1, first).prev)
             IN  [h |-> h2, first |-> first]

\* balloc.go:180-194
removeFirst(h, head) ==
    LET first == Rd(h, head).next
    IN  IF first = head THEN [h |-> Touch(h, head), first |-> NULL]
        ELSE LET h0 == Touch(Touch(h, head), first)
                 h1 == Wr(h0, Rd(h0, first).prev, "next", Rd(h0, first).next)
                 h2 == Wr(h1, Rd(h1, first).next, "prev", Rd(h1, first).prev)
                 h3 == Wr(h2, first, "next", NULL)
                 h4 == Wr(h3, first, "prev", NULL)
             IN  [h |-> h4, first |-> first]

\* insertBlock without line 201: the old first element keeps its prev
insertBlock_NoBackLink(h, head, blk) ==
    LET h0 == Touch(h, head)
        h1 == Wr(h0, blk, "next", Rd(h0, head).next)
        h2 == Wr(h1, blk, "prev", head)
        h4 == Wr(h2, head, "next", blk)
    IN  h4

\* an insertBlock that links the block before the sentinel, at the tail
insertBlock_AtTail(h, head, blk) ==
    LET h0 == Touch(h, head)
        h1 == Wr(h0, blk, "prev", Rd(h0, head).prev)
        h2 == Wr(h1, blk, "next", head)
        h3 == Wr(h2, Rd(h2, head).prev, "next", blk)
        h4 == Wr(h3, head, "prev", blk)
    IN  h4

\* balloc.go:197-204
insertBlock(h, head, blk) ==
    LET h0 == Touch(h, head)
        h1 == Wr(h0, blk, "next", Rd(h0, head).next)
        h2 == Wr(h1, blk, "prev", head)
        h3 == Wr(h2, Rd(h2, head).next, "prev", blk)
        h4 == Wr(h3, head, "next", blk)
    IN  h4

\* ---------------------------------------------------------------- btok
\* balloc.go:99-108.  The loop leaves as soon as 2^k >= bytes.  For
\* bytes > 2^(WordBits-1) no k satisfies it: the shift yields 0 from
\* k = WordBits on and k wraps round, so the loop never ends.
Diverges == 0 - 1

RECURSIVE btokLoop(_, _)
btokLoop(kk, bytes) ==
    IF Shl1(kk) < bytes
    THEN IF kk >= WordBits THEN Diverges ELSE btokLoop(kk + 1, bytes)
    ELSE kk

btok(bytes) == btokLoop(SMALLEST_K, bytes)

\* a buddyCalc that flips the bit of the address, not of the offset
buddyCalc_Absolute(h, blk) ==
    LET bit == Shl1(Rd(h, blk).kval)
        buddyAddr == IF bit = 0 THEN blk[2]
                     ELSE IF (blk[2] \div bit) % 2 = 1 THEN blk[2] - bit
                     ELSE (blk[2] + bit) % Word
    IN  Mem(buddyAddr)

\* balloc.go:111-117 : the address of block's buddy (offset XOR 1<<kval)
buddyCalc(h, blk) ==
    LET offset == (blk[2] - base) % Word
        bit == Shl1(Rd(h, blk).kval)
        buddyOffset == IF bit = 0 THEN offset
                       ELSE IF (offset \div bit) % 2 = 1 THEN offset - bit
                       ELSE (offset + bit) % Word
    IN  Mem((base + buddyOffset) % Word)

\* ------------------------------------------------------- call and return
ClearLocals(t) ==
    /\ arg' = [arg EXCEPT ![t] = 0]
    /\ k' = [k EXCEPT ![t] = 0]
    /\ availableK' = [availableK EXCEPT ![t] = 0]
    /\ block' = [block EXCEPT ![t] = NULL]

\* return r; the deferred pool.lock.Unlock() runs
Return(t, r) ==
    /\ pc' = [pc EXCEPT ![t] = "idle"]
    /\ ret' = [ret EXCEPT ![t] = r]
    /\ locked' = FALSE
    /\ ClearLocals(t)

\* a run-time panic inside a body: the deferred Unlock runs while the panic
\* unwinds, nothing recovers it, the process ends
Panics(t) ==
    /\ pc' = [pc EXCEPT ![t] = "panicked"]
    /\ locked' = FALSE
    /\ UNCHANGED <<arg, k, availableK, block, ret>>

\* a Lock that does not wait for the mutex to be free
Lock_NoWait(t) ==
    /\ Alive
    /\ pc[t] \in {"init_lock", "malloc_lock", "free_lock", "destroy_lock"}
    /\ locked' = TRUE
    /\ pc' = [pc EXCEPT ![t] =
                CASE pc[t] = "init_lock" -> "init_body"
                  [] pc[t] = "malloc_lock" -> "malloc_body"
                  [] pc[t] = "free_lock" -> "free_body"
                  [] pc[t] = "destroy_lock" -> "destroy_body"]
    /\ UNCHANGED <<poolVars, mapping, released, arg, k, availableK, block,
                   ret, held>>

\* pool.lock.Lock() : balloc.go:42, 128, 208, 274
Lock(t) ==
    /\ Alive
    /\ pc[t] \in {"init_lock", "malloc_lock", "free_lock", "destroy_lock"}
    /\ ~locked
    /\ locked' = TRUE
    /\ pc' = [pc EXCEPT ![t] =
                CASE pc[t] = "init_lock" -> "init_body"
                  [] pc[t] = "malloc_lock" -> "malloc_body"
                  [] pc[t] = "free_lock" -> "free_body"
                  [] pc[t] = "destroy_lock" -> "destroy_body"]
    /\ UNCHANGED <<poolVars, mapping, released, arg, k, availableK, block,
                   ret, held>>

\* ------------------------------------------------------------ buddyMalloc
\* balloc.go:121-125 : a zero size returns (nil, nil) before the lock
CallMalloc(t, size) ==
    /\ Alive
    /\ pc[t] = "idle"
    /\ IF size = 0
       THEN /\ ret' = [ret EXCEPT ![t] = [op |-> "malloc", ptr |-> 0, err |-> NoErr]]
            /\ UNCHANGED <<pc, arg>>
       ELSE /\ pc' = [pc EXCEPT ![t] = "malloc_lock"]
            /\ arg' = [arg EXCEPT ![t] = size]
            /\ ret' = [ret EXCEPT ![t] = NoRet]
    /\ UNCHANGED <<poolVars, locked, mapping, released, k, availableK, block, held>>

\* balloc.go:144-146 : the first level from a on whose list is not empty
RECURSIVE scanUp(_)
scanUp(a) ==
    IF a <= kvalM /\ a \in DOMAIN avail /\ avail[a].next = Sent(a)
    THEN scanUp(a + 1)
    ELSE a

\* balloc.go:132-137 : the target level of a request
targetK(size) ==
    LET kk == btok((size + HeaderSize) % Word)
    IN  IF kk = Diverges THEN Diverges
        ELSE IF kk < SMALLEST_K THEN SMALLEST_K ELSE kk

\* balloc.go:131-157 : level, scan, ENOMEM or removeFirst
MallocScan(t) ==
    /\ Alive
    /\ pc[t] = "malloc_body"
    /\ LET kk == targetK(arg[t])
           a == scanUp(kk)
           r == removeFirst(Heap, Sent(a))
       IN  IF kk = Diverges
           THEN \* btok never returns: the thread spins, the lock stays held
                /\ pc' = [pc EXCEPT ![t] = "spin"]
                /\ UNCHANGED <<poolVars, locked, arg, k, availableK, block,
                               ret, held>>
           ELSE IF a > kvalM
           THEN /\ Return(t, [op |-> "malloc", ptr |-> 0, err |-> ENOMEM])
                /\ UNCHANGED <<poolVars, held>>
           ELSE IF r.h.fault
           THEN /\ Panics(t)
                /\ UNCHANGED <<poolVars, held>>
           ELSE /\ avail' = r.h.avail
                /\ mem' = r.h.mem
                /\ k' = [k EXCEPT ![t] = kk]
                /\ availableK' = [availableK EXCEPT ![t] = a]
                /\ block' = [block EXCEPT ![t] = r.first]
                /\ pc' = [pc EXCEPT ![t] = "malloc_split"]
                /\ UNCHANGED <<kvalM, numBytes, base, locked, arg, ret, held>>
    /\ UNCHANGED <<mapping, released>>

\* a split that forgets line 167: the upper half is put in no list
splitOnce_LosesBuddy(h, blk, a) ==
    LET buddy == Mem((blk[2] + Shl1(a)) % Word)
        h1 == Wr(h, buddy, "kval", a)
        h2 == Wr(h1, buddy, "tag", BLOCK_AVAIL)
        h4 == Wr(h2, blk, "kval", a)
    IN  h4

\* a split that forgets line 166: the upper half keeps the tag it had
splitOnce_NoTag(h, blk, a) ==
    LET buddy == Mem((blk[2] + Shl1(a)) % Word)
        h1 == Wr(h, buddy, "kval", a)
        h3 == insertBlock(h1, Sent(a), buddy)
        h4 == Wr(h3, blk, "kval", a)
    IN  h4

\* balloc.go:160-170 : one iteration of the split loop
splitOnce(h, blk, a) ==
    LET buddy == Mem((blk[2] + Shl1(a)) % Word)
        h1 == Wr(h, buddy, "kval", a)
        h2 == Wr(h1, buddy, "tag", BLOCK_AVAIL)
        h3 == insertBlock(h2, Sent(a), buddy)
        h4 == Wr(h3, blk, "kval", a)
    IN  h4

\* balloc.go:160-175 : split once more, or tag the block and return it
MallocSplit(t) ==
    /\ Alive
    /\ pc[t] = "malloc_split"
    /\ IF availableK[t] > k[t]
       THEN LET h == splitOnce(Heap, block[t], availableK[t] - 1)
            IN  IF h.fault
                THEN Panics(t) /\ UNCHANGED <<poolVars, held>>
                ELSE /\ avail' = h.avail
                     /\ mem' = h.mem
                     /\ availableK' = [availableK EXCEPT ![t] = availableK[t] - 1]
                     /\ UNCHANGED <<kvalM, numBytes, base, locked, pc, arg, k,
                                    block, ret, held>>
       ELSE LET h == Wr(Heap, block[t], "tag", BLOCK_RESERVED)
                p == (block[t][2] + HeaderSize) % Word
            IN  IF h.fault
                THEN Panics(t) /\ UNCHANGED <<poolVars, held>>
                ELSE /\ avail' = h.avail
                     /\ mem' = h.mem
                     /\ held' = held \cup {p}
                     /\ Return(t, [op |-> "malloc", ptr |-> p, err |-> NoErr])
                     /\ UNCHANGED <<kvalM, numBytes, base>>
    /\ UNCHANGED <<mapping, released>>

\* -------------------------------------------------------------- buddyFree
\* The caller frees nil or a pointer it holds (a double free or a foreign
\* pointer is outside the contract), and none while the pool is being
\* destroyed.
CallFree(t, p) ==
    /\ Alive
    /\ pc[t] = "idle"
    /\ p \in held \cup {0}
    /\ \A u \in Threads : pc[u] \notin {"destroy_lock", "destroy_body"}
    /\ held' = held \ {p}
    /\ pc' = [pc EXCEPT ![t] = "free_lock"]
    /\ arg' = [arg EXCEPT ![t] = p]
    /\ ret' = [ret EXCEPT ![t] = NoRet]
    /\ UNCHANGED <<poolVars, locked, mapping, released, k, availableK, block>>

\* balloc.go:211-222 : nil returns; else the header is tagged BLOCK_AVAIL
FreeBody(t) ==
    /\ Alive
    /\ pc[t] = "free_body"
    /\ IF arg[t] = 0
       THEN /\ Return(t, [op |-> "free", ptr |-> 0, err |-> NoErr])
            /\ UNCHANGED <<poolVars>>
       ELSE LET blk == Mem((arg[t] - HeaderSize) % Word)
                h == Wr(Heap, blk, "tag", BLOCK_AVAIL)
            IN  IF h.fault
                THEN Panics(t) /\ UNCHANGED <<poolVars>>
                ELSE /\ avail' = h.avail
                     /\ mem' = h.mem
                     /\ block' = [block EXCEPT ![t] = blk]
                     /\ pc' = [pc EXCEPT ![t] = "free_coalesce"]
                     /\ UNCHANGED <<kvalM, numBytes, base, locked, arg, k,
                                    availableK, ret>>
    /\ UNCHANGED <<mapping, released, held>>

\* the range check of line 237 off by one: a buddy at base is refused
coalesceStops_OffByOne(h, blk) ==
    LET buddy == buddyCalc(h, blk)
        buddyPtr == buddy[2]
    IN  \/ buddyPtr <= base
        \/ buddyPtr >= (base + numBytes) % Word
        \/ Rd(h, buddy).tag # BLOCK_AVAIL
        \/ Rd(h, buddy).kval # Rd(h, blk).kval

\* balloc.go:233-244 : does the loop of coalesce break at this block?
coalesceStops(h, blk) ==
    LET buddy == buddyCalc(h, blk)
        buddyPtr == buddy[2]
    IN  \/ buddyPtr < base
        \/ buddyPtr >= (base + numBytes) % Word
        \/ Rd(h, buddy).tag # BLOCK_AVAIL
        \/ Rd(h, buddy).kval # Rd(h, blk).kval

\* a merge that goes on with the freed block, not with the lower address
mergeOnce_KeepsBlock(h, blk) ==
    LET buddy == buddyCalc(h, blk)
        h0 == Touch(Touch(h, blk), buddy)
        h1 == Wr(h0, Rd(h0, buddy).prev, "next", Rd(h0, buddy).next)
        h2 == Wr(h1, Rd(h1, buddy).next, "prev", Rd(h1, buddy).prev)
        h3 == Wr(h2, buddy, "next", NULL)
        h4 == Wr(h3, buddy, "prev", NULL)
        h5 == Wr(h4, blk, "kval", (Rd(h4, blk).kval + 1) % 65536)
    IN  [h |-> h5, block |-> blk]

\* a merge that goes on with the higher of the two addresses
mergeOnce_KeepsUpper(h, blk) ==
    LET buddy == buddyCalc(h, blk)
        h0 == Touch(Touch(h, blk), buddy)
        h1 == Wr(h0, Rd(h0, buddy).prev, "next", Rd(h0, buddy).next)
        h2 == Wr(h1, Rd(h1, buddy).next, "prev", Rd(h1, buddy).prev)
        h3 == Wr(h2, buddy, "next", NULL)
        h4 == Wr(h3, buddy, "prev", NULL)
        upperBlock == IF blk[2] < buddy[2] THEN buddy ELSE blk
        h5 == Wr(h4, upperBlock, "kval", (Rd(h4, upperBlock).kval + 1) % 65536)
    IN  [h |-> h5, block |-> upperBlock]

\* balloc.go:246-266 : unlink the buddy, the lower block grows by one level
mergeOnce(h, blk) ==
    LET buddy == buddyCalc(h, blk)
        h0 == Touch(Touch(h, blk), buddy)
        h1 == Wr(h0, Rd(h0, buddy).prev, "next", Rd(h0, buddy).next)
        h2 == Wr(h1, Rd(h1, buddy).next, "prev", Rd(h1, buddy).prev)
        h3 == Wr(h2, buddy, "next", NULL)
        h4 == Wr(h3, buddy, "prev", NULL)
        lowerBlock == IF blk[2] < buddy[2] THEN blk ELSE buddy
        h5 == Wr(h4, lowerBlock, "kval", (Rd(h4, lowerBlock).kval + 1) % 65536)
    IN  [h |-> h5, block |-> lowerBlock]

\* one iteration of coalesce's loop that does not break
CoalesceMerge(t) ==
    /\ Alive
    /\ pc[t] = "free_coalesce"
    /\ ~coalesceStops(Heap, block[t])
    /\ LET r == mergeOnce(Heap, block[t])
       IN  IF r.h.fault
           THEN Panics(t) /\ UNCHANGED <<poolVars>>
           ELSE /\ avail' = r.h.avail
                /\ mem' = r.h.mem
                /\ block' = [block EXCEPT ![t] = r.block]
                /\ UNCHANGED <<kvalM, numBytes, base, locked, pc, arg, k,
                               availableK, ret>>
    /\ UNCHANGED <<mapping, released, held>>

\* balloc.go:269 : the loop broke; the block goes to the list of its level
CoalesceDone(t) ==
    /\ Alive
    /\ pc[t] = "free_coalesce"
    /\ coalesceStops(Heap, block[t])
    /\ LET h == insertBlock(Touch(Heap, block[t]),
                            Sent(Rd(Heap, block[t]).kval), block[t])
       IN  IF h.fault
           THEN Panics(t) /\ UNCHANGED <<poolVars>>
           ELSE /\ avail' = h.avail
                /\ mem' = h.mem
                /\ Return(t, [op |-> "free", ptr |-> 0, err |-> NoErr])
                /\ UNCHANGED <<kvalM, numBytes, base>>
    /\ UNCHANGED <<mapping, released, held>>

\* ------------------------------------------------------------- buddyInit
\* A pool is initialised by its owner when it holds no arena, one
\* initialisation at a time.
CallInit(t, size) ==
    /\ Alive
    /\ pc[t] = "idle"
    /\ base = 0
    /\ \A u \in Threads : pc[u] \notin {"init_lock", "init_body"}
    /\ pc' = [pc EXCEPT ![t] = "init_lock"]
    /\ arg' = [arg EXCEPT ![t] = size]
    /\ ret' = [ret EXCEPT ![t] = NoRet]
    /\ UNCHANGED <<poolVars, locked, mapping, released, k, availableK, block, held>>

\* balloc.go:46-58 : the level of the arena for a requested size
initLevel(size) ==
    LET k0 == IF size = 0 THEN DEFAULT_K ELSE btok(size)
        k1 == IF k0 < MIN_K THEN MIN_K ELSE k0
        k2 == IF k1 > MAX_K THEN MAX_K - 1 ELSE k1
    IN  IF k0 = Diverges THEN Diverges ELSE k2

\* balloc.go:75-80 : every sentinel an empty list
emptySentinels ==
    [i \in DOMAIN avail |->
        [tag |-> BLOCK_UNUSED, kval |-> i, next |-> Sent(i), prev |-> Sent(i)]]

\* the first block without line 92: the sentinel's prev is not set to it
firstBlockLinked_NoPrev(h, b, kval) ==
    LET firstBlock == Mem(b)
        h1 == Wr(h, firstBlock, "tag", BLOCK_AVAIL)
        h2 == Wr(h1, firstBlock, "kval", kval)
        h3 == Wr(Touch(h2, Sent(kval)), firstBlock, "next", Sent(kval))
        h4 == Wr(h3, firstBlock, "prev", Sent(kval))
        h5 == Wr(h4, Sent(kval), "next", firstBlock)
    IN  h5

\* balloc.go:83-92 : the first block, linked into avail[kval]
firstBlockLinked(h, b, kval) ==
    LET firstBlock == Mem(b)
        h1 == Wr(h, firstBlock, "tag", BLOCK_AVAIL)
        h2 == Wr(h1, firstBlock, "kval", kval)
        h3 == Wr(Touch(h2, Sent(kval)), firstBlock, "next", Sent(kval))
        h4 == Wr(h3, firstBlock, "prev", Sent(kval))
        h5 == Wr(h4, Sent(kval), "next", firstBlock)
        h6 == Wr(h5, Sent(kval), "prev", firstBlock)
    IN  h6

\* balloc.go:45-70 : btok never returns for a size above 2^(WordBits-1)
InitSpin(t) ==
    /\ Alive
    /\ pc[t] = "init_body"
    /\ initLevel(arg[t]) = Diverges
    /\ pc' = [pc EXCEPT ![t] = "spin"]
    /\ UNCHANGED <<poolVars, locked, mapping, released, arg, k, availableK,
                   block, ret, held>>

\* balloc.go:60-70 : unix.Mmap fails; kvalM and numBytes are already set
InitMmapFails(t) ==
    /\ Alive
    /\ pc[t] = "init_body"
    /\ initLevel(arg[t]) # Diverges
    /\ kvalM' = initLevel(arg[t])
    /\ numBytes' = Shl1(initLevel(arg[t]))
    /\ Return(t, [op |-> "init", ptr |-> 0, err |-> ENOMEM])
    /\ UNCHANGED <<base, avail, mem, mapping, released, held>>

\* balloc.go:60-94 : unix.Mmap succeeds
InitBody(t) ==
    /\ Alive
    /\ pc[t] = "init_body"
    /\ initLevel(arg[t]) # Diverges
    /\ \E b \in MmapBases :
        LET kval == initLevel(arg[t])
            h0 == [avail |-> emptySentinels,
                   mem |-> FreshArena(b, Shl1(kval)),
                   fault |-> FALSE]
            h == firstBlockLinked(h0, b, kval)
        IN  /\ kvalM' = kval
            /\ numBytes' = Shl1(kval)
            /\ base' = b
            /\ mapping' = [base |-> b, size |-> Shl1(kval)]
            /\ released' = 0
            /\ avail' = h.avail
            /\ mem' = h.mem
            /\ IF h.fault
               THEN Panics(t)
               ELSE Return(t, [op |-> "init", ptr |-> 0, err |-> NoErr])
    /\ UNCHANGED held

\* ---------------------------------------------------------- buddyDestroy
\* The owner destroys the pool when no free is under way; the pointers into
\* the arena die with it.
CallDestroy(t) ==
    /\ Alive
    /\ pc[t] = "idle"
    /\ \A u \in Threads : pc[u] \notin {"free_lock", "free_body", "free_coalesce"}
    /\ pc' = [pc EXCEPT ![t] = "destroy_lock"]
    /\ ret' = [ret EXCEPT ![t] = NoRet]
    /\ UNCHANGED <<poolVars, locked, mapping, released, arg, k, availableK,
                   block, held>>

\* balloc.go:280-282 : no base, nothing to destroy
DestroyNoop(t) ==
    /\ Alive
    /\ pc[t] = "destroy_body"
    /\ base = 0
    /\ Return(t, [op |-> "destroy", ptr |-> 0, err |-> NoErr])
    /\ UNCHANGED <<poolVars, mapping, released, held>>

\* balloc.go:293-296 : unix.Munmap fails, the pool is returned as it is
DestroyMunmapFails(t) ==
    /\ Alive
    /\ pc[t] = "destroy_body"
    /\ base # 0
    /\ Return(t, [op |-> "destroy", ptr |-> 0, err |-> EINVAL])
    /\ UNCHANGED <<poolVars, mapping, released, held>>

\* a destroy that forgets line 299: the base survives the unmapping
destroyUnmaps_KeepsBase(t) ==
    /\ mapping' = NoMapping
    /\ released' = released + 1
    /\ mem' = FreshArena(0, 0)
    /\ base' = base
    /\ numBytes' = 0
    /\ kvalM' = 0
    /\ avail' = [i \in DOMAIN avail |-> ZeroAvail]
    /\ held' = {}
    /\ Return(t, [op |-> "destroy", ptr |-> 0, err |-> NoErr])

\* balloc.go:293-305 : unix.Munmap succeeds, the pool is zeroed but its lock
destroyUnmaps(t) ==
    /\ mapping' = NoMapping
    /\ released' = released + 1
    /\ mem' = FreshArena(0, 0)
    /\ base' = 0
    /\ numBytes' = 0
    /\ kvalM' = 0
    /\ avail' = [i \in DOMAIN avail |-> ZeroAvail]
    /\ held' = {}
    /\ Return(t, [op |-> "destroy", ptr |-> 0, err |-> NoErr])

DestroyBody(t) ==
    /\ Alive
    /\ pc[t] = "destroy_body"
    /\ base # 0
    /\ destroyUnmaps(t)

\* ------------------------------------------------------------ a nil pool
\* balloc.go:121-125 : buddyMalloc(nil, size) returns (nil, nil) at the
\* check of line 123, before any use of pool
CallMallocNilPool(t, size) ==
    /\ Alive
    /\ pc[t] = "idle"
    /\ ret' = [ret EXCEPT ![t] = [op |-> "malloc", ptr |-> 0, err |-> NoErr]]
    /\ UNCHANGED <<poolVars, locked, mapping, released, pc, arg, k, availableK,
                   block, held>>

\* balloc.go:207-208 : buddyFree(nil, ptr) calls pool.lock.Lock() before the
\* check of line 212: a nil pointer dereference, the caller panics.  The
\* pool that other callers share and the pointer stay as they are.
CallFreeNilPool(t, p) ==
    /\ Alive
    /\ pc[t] = "idle"
    /\ p \in held \cup {0}
    /\ pc' = [pc EXCEPT ![t] = "panicked"]
    /\ UNCHANGED <<poolVars, locked, mapping, released, arg, k, availableK,
                   block, ret, held>>

\* ------------------------------------------------------------- the user
\* what a caller may leave in the bytes it was given: a value that reads as
\* the header of a free block of some level
Garbage ==
    {[tag |-> BLOCK_AVAIL, kval |-> kk, next |-> NULL, prev |-> NULL] :
        kk \in SMALLEST_K .. MIN_K}

\* the header slots that lie inside the payload of the block behind p
PayloadSlots(p) ==
    LET blk == (p - HeaderSize) % Word
    IN  IF blk \notin DOMAIN mem THEN {}
        ELSE {a \in DOMAIN mem : blk < a /\ a < blk + Shl1(mem[blk].kval)}

\* The holder of p writes into its payload.  Old headers of blocks that
\* were merged away live there; the allocator must never rely on them.
UserWrite(p, a, v) ==
    /\ Alive
    /\ p \in held
    /\ a \in PayloadSlots(p)
    /\ mem' = [mem EXCEPT ![a] = v]
    /\ UNCHANGED <<kvalM, numBytes, base, avail, locked, mapping, released,
                   pc, arg, k, availableK, block, ret, held>>

\* ------------------------------------------------------------------ spec
Next ==
    \/ \E p \in held, a \in DOMAIN mem, v \in Garbage : UserWrite(p, a, v)
    \/ \E t \in Threads : Lock(t)
    \/ \E t \in Threads, size \in MallocSizes : CallMalloc(t, size)
    \/ \E t \in Threads : MallocScan(t)
    \/ \E t \in Threads : MallocSplit(t)
    \/ \E t \in Threads, p \in held \cup {0} : CallFree(t, p)
    \/ \E t \in Threads : FreeBody(t)
    \/ \E t \in Threads : CoalesceMerge(t)
    \/ \E t \in Threads : CoalesceDone(t)
    \/ \E t \in Threads, size \in InitSizes : CallInit(t, size)
    \/ \E t \in Threads : InitSpin(t)
    \/ \E t \in Threads : InitMmapFails(t)
    \/ \E t \in Threads : InitBody(t)
    \/ \E t \in Threads : CallDestroy(t)
    \/ \E t \in Threads : DestroyNoop(t)
    \/ \E t \in Threads : DestroyMunmapFails(t)
    \/ \E t \in Threads : DestroyBody(t)
    \/ \E t \in Threads, size \in MallocSizes : CallMallocNilPool(t, size)
    \/ \E t \in Threads, p \in held \cup {0} : CallFreeNilPool(t, p)

Spec == Init /\ [][Next]_vars

\* ------------------------------------------------------ reading the pool
\* A quiescent point: the pool holds an arena, no call is inside its locked
\* section and none has panicked.
Quiescent == base # 0 /\ ~locked /\ Alive

\* the critical sections
Bodies == {"init_body", "malloc_body", "malloc_split", "free_body",
           "free_coalesce", "destroy_body", "spin"}

InCS == {t \in Threads : pc[t] \in Bodies}

\* the addresses linked into the list of level i, in list order
RECURSIVE listFrom(_, _, _)
listFrom(p, head, n) ==
    IF p = head \/ n = 0 \/ p[1] # "mem" \/ p[2] \notin DOMAIN mem
    THEN << >>
    ELSE <<p[2]>> \o listFrom(mem[p[2]].next, head, n - 1)

FreeSeq(i) == listFrom(avail[i].next, Sent(i), Cardinality(DOMAIN mem) + 1)

FreeAddrs(i) == {FreeSeq(i)[j] : j \in 1 .. Len(FreeSeq(i))}

AllFreeAddrs == UNION {FreeAddrs(i) : i \in DOMAIN avail}

\* pointers handed out and not yet given back to the allocator: those the
\* callers hold and those passed to a buddyFree that waits for the lock
Outstanding ==
    held \cup {arg[t] : t \in {u \in Threads : pc[u] = "free_lock" /\ arg[u] # 0}}

ReservedAddrs == {(p - HeaderSize) % Word : p \in Outstanding}

LevelOf(a) == IF a \in DOMAIN mem THEN mem[a].kval ELSE 0

Extent(a) == a .. a + Shl1(LevelOf(a)) - 1

RECURSIVE SumSizes(_)
SumSizes(S) ==
    IF S = {} THEN 0
    ELSE LET a == CHOOSE x \in S : TRUE
         IN  Shl1(LevelOf(a)) + SumSizes(S \ {a})

RECURSIVE SumFree(_)
SumFree(I) ==
    IF I = {} THEN 0
    ELSE LET i == CHOOSE x \in I : TRUE
         IN  SumSizes(FreeAddrs(i)) + SumFree(I \ {i})

\* the buddy of the block at a: bit LevelOf(a) of its offset flipped
BuddyAddr(a) ==
    LET off == a - base
        sz == Shl1(LevelOf(a))
    IN  IF (off \div sz) % 2 = 0 THEN a + sz ELSE a - sz

\* ------------------------------------------------------------------- C1
\* C1: at every quiescent point the free blocks in the lists and the
\* reserved blocks are pairwise disjoint, no block is linked twice or both
\* free and reserved, together they cover exactly [base, base + numBytes),
\* and their sizes 2^level sum to numBytes.
C1_Conservation ==
    Quiescent =>
        /\ \A i \in DOMAIN avail : Len(FreeSeq(i)) = Cardinality(FreeAddrs(i))
        /\ \A i, j \in DOMAIN avail : i # j => FreeAddrs(i) \cap FreeAddrs(j) = {}
        /\ AllFreeAddrs \cap ReservedAddrs = {}
        /\ Cardinality(ReservedAddrs) = Cardinality(Outstanding)
        /\ \A a, b \in AllFreeAddrs \cup ReservedAddrs :
              a # b => Extent(a) \cap Extent(b) = {}
        /\ UNION {Extent(a) : a \in AllFreeAddrs \cup ReservedAddrs}
              = base .. base + numBytes - 1
        /\ SumFree(DOMAIN avail) + SumSizes(ReservedAddrs) = numBytes

\* a quiescent point after a free, with two live allocations and a free block
C1_Witness ==
    /\ Quiescent
    /\ Cardinality(held) >= 2
    /\ AllFreeAddrs # {}
    /\ \E t \in Threads : ret[t].op = "free"

\* ------------------------------------------------------------------- C2
\* C2: at every quiescent point (after init, after any allocate, after any
\* free) no two buddies of the same level are both tagged BLOCK_AVAIL.
C2_NoFreeBuddies ==
    Quiescent =>
        \A a \in AllFreeAddrs \cup ReservedAddrs :
            LET b == BuddyAddr(a)
            IN  ~ /\ mem[a].tag = BLOCK_AVAIL
                  /\ b \in AllFreeAddrs \cup ReservedAddrs
                  /\ mem[b].tag = BLOCK_AVAIL
                  /\ mem[b].kval = mem[a].kval

\* after a free: a free block above the smallest level beside a reserved
\* block, so a merge stopped at a reserved buddy
C2_Witness ==
    /\ Quiescent
    /\ \E t \in Threads : ret[t].op = "free"
    /\ \E a \in AllFreeAddrs :
          /\ LevelOf(a) > SMALLEST_K
          /\ BuddyAddr(a) \in ReservedAddrs

\* ------------------------------------------------------------------- C3
\* the free-list registry as buddyInit leaves it: one BLOCK_AVAIL block of
\* level kvalM at base, alone in avail[kvalM]; every other list empty
PoolFull ==
    /\ \A i \in DOMAIN avail :
          i # kvalM => avail[i].next = Sent(i) /\ avail[i].prev = Sent(i)
    /\ kvalM \in DOMAIN avail
    /\ avail[kvalM].next = Mem(base)
    /\ avail[kvalM].prev = Mem(base)
    /\ mem[base] = [tag |-> BLOCK_AVAIL, kval |-> kvalM,
                    next |-> Sent(kvalM), prev |-> Sent(kvalM)]

\* C3: whenever every allocation has been freed again (none outstanding,
\* no call in its locked section) the registry equals its post-init state.
C3_RoundTrip == (Quiescent /\ Outstanding = {}) => PoolFull

\* both threads have returned from a free and nothing is outstanding
C3_Witness ==
    /\ Quiescent
    /\ Outstanding = {}
    /\ \A t \in Threads : ret[t].op = "free" /\ pc[t] = "idle"

\* ------------------------------------------------------------- C4 .. C7
\* the step in which thread t's buddyMalloc returns a pointer
MallocReturns(t) == pc[t] = "malloc_split" /\ pc'[t] = "idle"

\* the step in which thread t's buddyMalloc, its level computed, either
\* fails or takes a block
MallocDecides(t) == pc[t] = "malloc_body" /\ pc'[t] # "malloc_body"

\* the smallest level from SMALLEST_K on whose block holds n bytes, n a
\* number and not a machine word; WordBits + 1 levels always suffice
LevelFor(n) ==
    CHOOSE kk \in SMALLEST_K .. WordBits + 1 :
        /\ 2 ^ kk >= n
        /\ \A j \in SMALLEST_K .. kk - 1 : 2 ^ j < n

ListEmpty(i) == avail[i].next = Sent(i)

\* C4: whenever buddyMalloc returns a pointer for a request of size bytes,
\* the block behind it has 2^level - HeaderSize >= size usable bytes.
C4_Capacity ==
    [][\A t \in Threads :
          MallocReturns(t) =>
              Shl1(mem'[block[t][2]].kval) - HeaderSize >= arg[t]]_vars

\* C5: the block a successful buddyMalloc hands out is tagged
\* BLOCK_RESERVED, has the level of (size + HeaderSize) taken in the width
\* of the machine word, lies wholly inside the arena, is linked into no free
\* list with next and prev nil, and the pointer returned is its address
\* plus HeaderSize.
C5_HandedOut ==
    [][\A t \in Threads :
          MallocReturns(t) =>
              LET a == block[t][2]
              IN  /\ a \in DOMAIN mem'
                  /\ mem'[a].tag = BLOCK_RESERVED
                  /\ mem'[a].kval = LevelFor((arg[t] + HeaderSize) % Word)
                  /\ base <= a
                  /\ a + Shl1(mem'[a].kval) <= base + numBytes
                  /\ mem'[a].next = NULL
                  /\ mem'[a].prev = NULL
                  /\ a \notin AllFreeAddrs'
                  /\ ret'[t] = [op |-> "malloc", ptr |-> a + HeaderSize,
                                err |-> NoErr]
                  /\ held' = held \cup {a + HeaderSize}]_vars

\* a pointer was returned for a block that had to be split off
C5_Witness ==
    \E t \in Threads :
        /\ ret[t].op = "malloc"
        /\ ret[t].ptr \in held
        /\ LevelOf((ret[t].ptr - HeaderSize) % Word) < kvalM

\* one allocation holds the whole arena
WholeArenaTaken ==
    /\ Quiescent
    /\ Outstanding = {base + HeaderSize}
    /\ LevelOf(base) = kvalM

\* C6: while one allocation holds the whole arena every free list is empty
\* and every further non-zero buddyMalloc returns (nil, ENOMEM); once it is
\* freed, a buddyMalloc of any size that fits the arena takes a block.
C6_Exhaustion ==
    [][/\ WholeArenaTaken => \A i \in DOMAIN avail : ListEmpty(i)
       /\ \A t \in Threads :
             /\ (Outstanding = {base + HeaderSize} /\ LevelOf(base) = kvalM
                 /\ base # 0 /\ MallocDecides(t))
                   => /\ pc'[t] = "idle"
                      /\ ret'[t] = [op |-> "malloc", ptr |-> 0, err |-> ENOMEM]
             /\ (base # 0 /\ Outstanding = {} /\ MallocDecides(t)
                 /\ arg[t] + HeaderSize <= numBytes)
                   => pc'[t] = "malloc_split"]_vars

\* C7: on a pool that holds an arena buddyMalloc returns ENOMEM exactly when
\* every free list of the levels k .. kvalM is empty, k the level of
\* size + HeaderSize (no list at all when k > kvalM), and a failing
\* buddyMalloc changes nothing of the pool.
C7_OutOfMemory ==
    [][\A t \in Threads :
          (base # 0 /\ MallocDecides(t)) =>
              LET kk == LevelFor((arg[t] + HeaderSize) % Word)
                  fails == /\ pc'[t] = "idle"
                           /\ ret'[t] = [op |-> "malloc", ptr |-> 0,
                                         err |-> ENOMEM]
              IN  /\ fails <=> \A i \in kk .. kvalM :
                                  i \in DOMAIN avail => ListEmpty(i)
                  /\ fails => UNCHANGED <<poolVars, mapping, held>>]_vars

\* ------------------------------------------------------------------- C8
\* C8: at most one thread is inside a locked section, the lock is held
\* while one is, and the blocks behind any two pointers handed out never
\* overlap.
C8_MutualExclusion ==
    /\ Cardinality(InCS) <= 1
    /\ InCS # {} => locked
    /\ \A p, q \in held :
          p # q => Extent((p - HeaderSize) % Word)
                     \cap Extent((q - HeaderSize) % Word) = {}

\* one thread is in the middle of a split while the other waits for the
\* lock with a request of its own
C8_Witness ==
    \E t, u \in Threads :
        /\ pc[t] = "malloc_split"
        /\ availableK[t] > k[t]
        /\ pc[u] = "malloc_lock"

\* ------------------------------------------------------------------- C9
\* C9: no call ever enters a loop it cannot leave, and whenever no thread
\* is inside a call's body the lock is free.
C9_Terminates ==
    /\ \A t \in Threads : pc[t] # "spin"
    /\ InCS = {} => ~locked

\* ------------------------------------------------------------------ C10
\* the step in which thread t's buddyDestroy returns
DestroyReturns(t) == pc[t] = "destroy_body" /\ pc'[t] = "idle"

\* C10: a buddyDestroy of a pool without base returns nil, calls no munmap
\* and changes nothing; one whose munmap succeeds returns nil and leaves
\* the pool without base, so the next one is such a no-op; an arena is
\* never unmapped twice.
C10_DestroyTwice ==
    [][/\ released' <= 1
       /\ \A t \in Threads :
             DestroyReturns(t) =>
                /\ base = 0 =>
                      /\ ret'[t] = [op |-> "destroy", ptr |-> 0, err |-> NoErr]
                      /\ UNCHANGED <<poolVars, mapping, released, held>>
                /\ (base # 0 /\ mapping' # mapping) =>
                      /\ ret'[t] = [op |-> "destroy", ptr |-> 0, err |-> NoErr]
                      /\ base' = 0
                      /\ mapping' = NoMapping
                      /\ released' = released + 1]_vars

\* two destroys in a row have both returned nil and the arena was unmapped
\* once
C10_Witness ==
    /\ \A t \in Threads :
          pc[t] = "idle" /\ ret[t] = [op |-> "destroy", ptr |-> 0, err |-> NoErr]
    /\ released = 1
    /\ base = 0

\* ------------------------------------------------------------------ C11
\* C11: a buddyDestroy whose munmap fails returns that error and has
\* nevertheless reset the pool: base, numBytes, kvalM and every sentinel.
C11_ReleaseFailure ==
    [][\A t \in Threads :
          (DestroyReturns(t) /\ ret'[t].err # NoErr) =>
              /\ ret'[t].op = "destroy"
              /\ base' = 0
              /\ numBytes' = 0
              /\ kvalM' = 0
              /\ avail' = [i \in DOMAIN avail |-> ZeroAvail]]_vars

\* ------------------------------------------------------------------ C12
\* the step in which thread t's buddyInit has its level and ends
InitDecides(t) == pc[t] = "init_body" /\ pc'[t] \in {"idle", "panicked"}

\* the level the arena is to get for a requested size
ClampedLevel(size) ==
    IF size = 0 THEN DEFAULT_K
    ELSE IF size < 2 ^ MIN_K THEN MIN_K
    ELSE IF size >= 2 ^ MAX_K THEN MAX_K - 1
    ELSE LevelFor(size)

\* C12: buddyInit leaves kvalM at DEFAULT_K for size 0, at MIN_K for a size
\* below 2^MIN_K, at MAX_K - 1 for a size of 2^MAX_K or more, at the level
\* of the size otherwise, and kvalM is always an index of avail.
C12_Clamping ==
    [][\A t \in Threads :
          InitDecides(t) =>
              /\ kvalM' = ClampedLevel(arg[t])
              /\ kvalM' \in DOMAIN avail]_vars

\* ------------------------------------------------------------------ C13
\* C13: for every byte count btok is applied to (the size given to
\* buddyInit, size + HeaderSize in buddyMalloc) it returns the smallest
\* k >= SMALLEST_K with 2^k >= bytes; btok(0) = btok(1) = SMALLEST_K, and a
\* power of two maps to its exponent, the next byte count to one more.
C13_Btok ==
    /\ btok(0) = SMALLEST_K
    /\ btok(1) = SMALLEST_K
    /\ btok(2 ^ MIN_K) = MIN_K
    /\ btok(2 ^ MIN_K + 1) = MIN_K + 1
    /\ \A t \in Threads :
          /\ (pc[t] = "init_body" /\ arg[t] # 0)
                => btok(arg[t]) = LevelFor(arg[t])
          /\ pc[t] = "malloc_body"
                => btok((arg[t] + HeaderSize) % Word)
                      = LevelFor((arg[t] + HeaderSize) % Word)

\* ------------------------------------------------------------------ C14
\* the step in which thread t's buddyInit returns success
InitSucceeds(t) ==
    pc[t] = "init_body" /\ pc'[t] = "idle" /\ ret'[t].err = NoErr

\* C14: when buddyInit returns success every sentinel has tag BLOCK_UNUSED
\* and its own index as level, every list but avail[kvalM] is empty and
\* avail[kvalM] holds exactly the block at base, which is BLOCK_AVAIL, of
\* level kvalM, with next and prev the sentinel of kvalM.
C14_AfterInit ==
    [][\A t \in Threads :
          InitSucceeds(t) =>
              /\ base' # 0
              /\ \A i \in DOMAIN avail' :
                    avail'[i].tag = BLOCK_UNUSED /\ avail'[i].kval = i
              /\ PoolFull']_vars

\* a thread's buddyInit has returned success and nothing has been allocated
C14_Witness ==
    \E t \in Threads :
        /\ pc[t] = "idle"
        /\ ret[t] = [op |-> "init", ptr |-> 0, err |-> NoErr]
        /\ base # 0
        /\ PoolFull
        /\ held = {}

\* ------------------------------------------------------------------ C15
\* the blocks the arena is cut into, found by walking the headers from a:
\* each block ends where the next one starts
RECURSIVE WalkBlocks(_, _)
WalkBlocks(a, n) ==
    IF n = 0 \/ a \notin DOMAIN mem \/ a >= base + numBytes THEN {}
    ELSE {a} \cup WalkBlocks(a + Shl1(mem[a].kval), n - 1)

Blocks == WalkBlocks(base, Cardinality(DOMAIN mem))

\* what precedes position j of list i: the sentinel or the element before
PrevOf(i, j) == IF j = 1 THEN Sent(i) ELSE Mem(FreeSeq(i)[j - 1])

\* list i runs from its sentinel through next and back to it, and prev
\* retraces it
WellFormed(i) ==
    LET seq == FreeSeq(i)
        last == IF seq = << >> THEN Sent(i) ELSE Mem(seq[Len(seq)])
    IN  /\ Rd(Heap, last).next = Sent(i)
        /\ avail[i].prev = last
        /\ \A j \in 1 .. Len(seq) : mem[seq[j]].prev = PrevOf(i, j)
        /\ Len(seq) = Cardinality(FreeAddrs(i))

\* C15: at every quiescent point of an initialised pool a block of the
\* arena is linked into avail[i] iff its header has kval = i and tag
\* BLOCK_AVAIL; the lists hold nothing but blocks of the arena; every list
\* is circular and doubly linked through its sentinel, no block linked
\* twice; every sentinel has tag BLOCK_UNUSED and its index as kval.
C15_Lists ==
    Quiescent =>
        /\ \A a \in Blocks : \A i \in DOMAIN avail :
              a \in FreeAddrs(i)
                  <=> (mem[a].kval = i /\ mem[a].tag = BLOCK_AVAIL)
        /\ AllFreeAddrs \subseteq Blocks
        /\ \A i \in DOMAIN avail : WellFormed(i)
        /\ \A i, j \in DOMAIN avail : i # j => FreeAddrs(i) \cap FreeAddrs(j) = {}
        /\ \A i \in DOMAIN avail :
              avail[i].tag = BLOCK_UNUSED /\ avail[i].kval = i

\* after a free: a list of two blocks between two reserved blocks
C15_Witness ==
    /\ Quiescent
    /\ \E t \in Threads : ret[t].op = "free"
    /\ \E i \in DOMAIN avail : Len(FreeSeq(i)) >= 2
    /\ Cardinality(held) >= 2

\* ------------------------------------------------------------------ C16
\* the blocks a buddyMalloc or a buddyFree has in hand, in no list
InFlight ==
    {block[t][2] : t \in {u \in Threads : pc[u] \in {"malloc_split", "free_coalesce"}}}

\* the block at a starts at a multiple of its size, and buddyCalc yields its
\* buddy: the other half of the block of the next level that contains a
AlignedAt(a) ==
    /\ a \in DOMAIN mem
    /\ mem[a].kval < WordBits
    /\ LET sz == Shl1(mem[a].kval)
           b == buddyCalc(Heap, Mem(a))[2]
       IN  /\ (a - base) % sz = 0
           /\ (b - base) % sz = 0
           /\ b # a
           /\ (b - base) \div (2 * sz) = (a - base) \div (2 * sz)

AllAligned ==
    (base # 0 /\ Alive) =>
        \A a \in AllFreeAddrs \cup ReservedAddrs \cup InFlight : AlignedAt(a)

\* the iteration of coalesce thread t is about to run merges, and goes on
\* with the lower of block and buddy, one level up
MergeKeepsLower(t) ==
    LET a == block[t][2]
        b == buddyCalc(Heap, block[t])[2]
        lower == IF a < b THEN a ELSE b
        r == mergeOnce(Heap, block[t])
    IN  /\ r.block = Mem(lower)
        /\ Rd(r.h, r.block).kval = mem[a].kval + 1
        /\ (lower - base) % (2 * Shl1(mem[a].kval)) = 0

\* C16: in every state of an initialised pool every free, reserved or in
\* hand block of level k lies at an offset from base that is a multiple of
\* 2^k, and flipping bit k of the offset gives the start of its buddy; that
\* includes the states between the iterations of the split loop and of
\* coalesce.  A merge goes on with the lower of the two addresses, one level
\* up.
C16_Alignment ==
    /\ AllAligned
    /\ (base # 0 /\ Alive) =>
          \A t \in Threads :
              (pc[t] = "free_coalesce" /\ ~coalesceStops(Heap, block[t]))
                  => MergeKeepsLower(t)

\* a free has merged into its lower buddy while another block is reserved
C16_Witness ==
    \E t \in Threads :
        /\ pc[t] = "free_coalesce"
        /\ block[t][2] < (arg[t] - HeaderSize) % Word
        /\ LevelOf(block[t][2]) > SMALLEST_K
        /\ held # {}

\* ------------------------------------------------------------------ C17
\* what buddyMalloc returns for a zero size or a nil pool
NothingReturned == [op |-> "malloc", ptr |-> 0, err |-> NoErr]

\* C17: buddyMalloc with size 0 or with a nil pool returns (nil, nil) and
\* changes nothing of the pool; buddyFree with a nil pointer returns and
\* changes nothing of the pool; no call faults on entry, so buddyFree with a
\* nil pool returns as well.
C17_NullNoOps ==
    [][\A t \in Threads :
          /\ (pc[t] = "idle" /\ pc'[t] = "idle" /\ ret'[t] # ret[t]) =>
                /\ ret'[t] = NothingReturned
                /\ UNCHANGED <<poolVars, locked, mapping, released, held>>
          /\ (pc[t] = "free_body" /\ arg[t] = 0 /\ pc'[t] # pc[t]) =>
                /\ pc'[t] = "idle"
                /\ ret'[t] = [op |-> "free", ptr |-> 0, err |-> NoErr]
                /\ UNCHANGED <<poolVars, mapping, released, held>>
          /\ pc[t] = "idle" => pc'[t] # "panicked"]_vars

\* ------------------------------------------------------------------ C18
\* the steps of a buddyMalloc that goes on to return a block: the scan that
\* takes a block, an iteration of the split loop, the return
TakesBlock(t) == pc[t] = "malloc_body" /\ pc'[t] = "malloc_split"

SplitsBlock(t) ==
    /\ pc[t] = "malloc_split"
    /\ pc'[t] = "malloc_split"
    /\ availableK'[t] # availableK[t]

\* every list but those of the levels in S is what it was
OtherListsKept(S) == \A i \in DOMAIN avail \ S : FreeSeq(i)' = FreeSeq(i)

\* C18: a buddyMalloc that returns a block took it from the lowest level j
\* in [k, kvalM] whose list is not empty, removing that one block from
\* avail[j] and nothing else; every iteration of its split loop, for the
\* levels i = j-1 down to k, adds exactly one block to avail[i], the upper
\* half, tagged BLOCK_AVAIL with level i, and touches no other list; the
\* return touches no list.  With j = k there is no iteration.
C18_TakeAndSplit ==
    [][\A t \in Threads :
          /\ TakesBlock(t) =>
                \E kk \in SMALLEST_K .. kvalM, j \in DOMAIN avail :
                    /\ kk = k'[t] /\ j = availableK'[t]
                    /\ kk <= j /\ j <= kvalM
                    /\ FreeSeq(j) # << >>
                    /\ \A i \in kk .. j - 1 : FreeSeq(i) = << >>
                    /\ block'[t] = Mem(Head(FreeSeq(j)))
                    /\ FreeSeq(j)' = Tail(FreeSeq(j))
                    /\ OtherListsKept({j})
          /\ SplitsBlock(t) =>
                \E i \in DOMAIN avail :
                    LET upper == block[t][2] + 2 ^ i
                    IN
                    /\ i = availableK'[t]
                    /\ i = availableK[t] - 1
                    /\ k[t] <= i
                    /\ block'[t] = block[t]
                    /\ FreeSeq(i)' = <<upper>> \o FreeSeq(i)
                    /\ mem'[upper].tag = BLOCK_AVAIL
                    /\ mem'[upper].kval = i
                    /\ mem'[block[t][2]].kval = i
                    /\ OtherListsKept({i})
          /\ MallocReturns(t) =>
                /\ availableK[t] = k[t]
                /\ mem'[block[t][2]].kval = k[t]
                /\ ret'[t].ptr = block[t][2] + HeaderSize
                /\ OtherListsKept({})]_vars

\* a buddyMalloc returns a block of the smallest level cut out of the whole
\* arena of four: it took the top block and split twice
C18_Witness ==
    \E t \in Threads :
        /\ pc[t] = "idle"
        /\ ret[t].op = "malloc"
        /\ ret[t].ptr # 0
        /\ LevelOf((ret[t].ptr - HeaderSize) % Word) = SMALLEST_K
        /\ kvalM = SMALLEST_K + 2
        /\ \A i \in SMALLEST_K .. kvalM - 1 : Len(FreeSeq(i)) = 1
        /\ FreeSeq(kvalM) = << >>

\* ------------------------------------------------------------------ C19
\* the sequence s without its j-th element
Without(s, j) == SubSeq(s, 1, j - 1) \o SubSeq(s, j + 1, Len(s))

\* the step in which thread t's buddyFree puts its block into a list
InsertsFreed(t) == pc[t] = "free_coalesce" /\ pc'[t] = "idle"

\* insertBlock then removeFirst on list i with the block at b, which is in
\* no list: the block comes back with nil links, nothing else has changed
InsertRemoveRestores(i, b) ==
    LET h1 == insertBlock(Heap, Sent(i), Mem(b))
        r == removeFirst(h1, Sent(i))
    IN  /\ ~r.h.fault
        /\ Rd(h1, Sent(i)).next = Mem(b)
        /\ r.first = Mem(b)
        /\ Rd(r.h, Mem(b)).next = NULL
        /\ Rd(r.h, Mem(b)).prev = NULL
        /\ r.h.avail = avail
        /\ \A a \in DOMAIN mem \ {b} : r.h.mem[a] = mem[a]

\* thread t, with a block in hand, takes its next step: an iteration of the
\* split loop or of coalesce, or the end of its call
MovesInHand(t) ==
    /\ pc[t] \in {"malloc_split", "free_coalesce"}
    /\ \/ pc'[t] # pc[t]
       \/ availableK'[t] # availableK[t]
       \/ block'[t] # block[t]
       \/ mem'[block[t][2]].kval # mem[block[t][2]].kval

\* C19: new blocks enter a list at its head (the block a buddyFree ends
\* with, the upper half of a split) and buddyMalloc takes the head; in
\* between a list only loses one element, the others keeping their order, so
\* the head is the block inserted last among those present.  removeFirst
\* after insertBlock of a block in hand, tried on every list wherever a
\* call goes on with such a block, gives back that block with nil links and
\* the lists as they were.
C19_Lifo ==
    [][\A t \in Threads :
          /\ InsertsFreed(t) =>
                \E i \in DOMAIN avail :
                    /\ i = mem[block[t][2]].kval
                    /\ FreeSeq(i)' = <<block[t][2]>> \o FreeSeq(i)
          /\ SplitsBlock(t) =>
                \E i \in DOMAIN avail :
                    /\ i = availableK[t] - 1
                    /\ FreeSeq(i)' = <<block[t][2] + 2 ^ i>> \o FreeSeq(i)
          /\ TakesBlock(t) =>
                \E j \in DOMAIN avail :
                    /\ j = availableK'[t]
                    /\ block'[t] = Mem(Head(FreeSeq(j)))
                    /\ FreeSeq(j)' = Tail(FreeSeq(j))
          /\ (base # 0 /\ base' = base /\ Alive') =>
                \A i \in DOMAIN avail :
                    \/ UNCHANGED <<avail, mem>>
                    \/ FreeSeq(i)' = FreeSeq(i)
                    \/ \E a \in DOMAIN mem : FreeSeq(i)' = <<a>> \o FreeSeq(i)
                    \/ \E j \in 1 .. Len(FreeSeq(i)) :
                          FreeSeq(i)' = Without(FreeSeq(i), j)
          /\ (base # 0 /\ Alive /\ MovesInHand(t)) =>
                \A i \in DOMAIN avail : InsertRemoveRestores(i, block[t][2])]_vars

\* a buddyMalloc has taken the head of a list of two without splitting: its
\* block's buddy is reserved and a free block of its level is left
C19_Witness ==
    \E t \in Threads :
        /\ pc[t] = "malloc_split"
        /\ availableK[t] = k[t]
        /\ FreeSeq(k[t]) # << >>
        /\ BuddyAddr(block[t][2]) \in ReservedAddrs

\* ------------------------------------------------------------------ C20
\* a is the address of a header inside [base, base + numBytes)
InArena(a) == base <= a /\ a < base + numBytes /\ a \in DOMAIN mem

\* a link that may be followed: to a sentinel or to a header in the arena
LinkInArena(p) ==
    \/ p[1] = "sent" /\ p[2] \in DOMAIN avail
    \/ p[1] = "mem" /\ InArena(p[2])

\* the headers the next iteration of thread t's coalesce reads and writes:
\* its block; the buddy, unless the range check stops the loop; the
\* buddy's neighbours when it merges; the list it inserts into when it stops
CoalesceInArena(t) ==
    LET blk == block[t]
        b == buddyCalc(Heap, blk)
        lvl == LevelOf(blk[2])
    IN  /\ InArena(blk[2])
        /\ SMALLEST_K <= lvl /\ lvl <= kvalM
        /\ IF blk[2] = base /\ lvl = kvalM
           THEN b[2] = base + numBytes /\ coalesceStops(Heap, blk)
           ELSE InArena(b[2])
        /\ ~coalesceStops(Heap, blk) =>
              /\ LinkInArena(Rd(Heap, b).prev)
              /\ LinkInArena(Rd(Heap, b).next)
              /\ ~mergeOnce(Heap, blk).h.fault
        /\ coalesceStops(Heap, blk) => LinkInArena(avail[lvl].next)

\* C20: while a buddyFree of a held pointer runs coalesce, every header it
\* reads or writes lies in [base, base + numBytes); only the block that is
\* the whole arena has its buddy outside, at base + numBytes, and the loop
\* stops there; no block has a level above kvalM; the call does not fault
\* and its final insertBlock goes to a list of a level in
\* [SMALLEST_K, kvalM].
C20_CoalesceBounds ==
    [][\A t \in Threads :
          /\ (pc[t] = "free_coalesce" /\ Alive) => CoalesceInArena(t)
          /\ pc[t] \in {"free_body", "free_coalesce"} => pc'[t] # "panicked"
          /\ (base' # 0 /\ Alive') =>
                \A a \in (AllFreeAddrs \cup ReservedAddrs \cup InFlight)' :
                    mem'[a].kval <= kvalM'
          /\ InsertsFreed(t) =>
                \E i \in SMALLEST_K .. kvalM :
                    /\ i = LevelOf(block[t][2])
                    /\ block[t][2] \in FreeAddrs(i)']_vars

\* a buddyFree has merged its block up to the whole arena and is about to
\* compute the buddy of that
C20_Witness ==
    \E t \in Threads :
        /\ pc[t] = "free_coalesce"
        /\ block[t] = Mem(base)
        /\ LevelOf(base) = kvalM
        /\ kvalM = SMALLEST_K + 2
        /\ (arg[t] - HeaderSize) % Word # base

\* ------------------------------------------------------------------ C21
\* the pool a buddyInit whose mmap failed has left: a level, no arena
AfterFailedInit == base = 0 /\ kvalM # 0

\* the step in which thread t's buddyInit returns an error
InitFails(t) ==
    pc[t] = "init_body" /\ pc'[t] = "idle" /\ ret'[t].err # NoErr

\* C21: when mmap fails buddyInit returns mmap's error and base stays 0;
\* on that pool every buddyMalloc whose level computation ends returns nil
\* with an error, changing nothing and following no link that was never
\* set, and buddyDestroy returns nil and leaves base 0.
C21_FailedInit ==
    [][\A t \in Threads :
          /\ InitFails(t) =>
                /\ ret'[t] = [op |-> "init", ptr |-> 0, err |-> ENOMEM]
                /\ base' = 0
                /\ mapping' = NoMapping
          /\ (AfterFailedInit /\ MallocDecides(t) /\ pc'[t] # "spin") =>
                /\ pc'[t] = "idle"
                /\ ret'[t].ptr = 0
                /\ ret'[t].err # NoErr
                /\ UNCHANGED poolVars
          /\ (AfterFailedInit /\ DestroyReturns(t)) =>
                /\ ret'[t].err = NoErr
                /\ base' = 0]_vars

====
